---- MODULE Spec2Model ----
(***************************************************************************)
(* Flight reconciliation engine of src/main.py: find_flight (Matcher),     *)
(* scrape_flightera_info (Orchestrator + Identity Validator),              *)
(* update_flight (Record Merger) and process_all_flights (batch loop).     *)
(*                                                                         *)
(* Python str values are sequences of tokens.  A token is one character,   *)
(* except that the four literals the merger tests with startswith()        *)
(* ("Departure:", "Arrival:", "Flightera:", "----------") and opaque codes  *)
(* (aircraft type, registration, timezone name) are single tokens.         *)
(* Python None is the one-token sequence NoneV, which no str contains.     *)
(***************************************************************************)
EXTENDS Integers, Sequences, FiniteSets, TLC

VARIABLES
    \* ---- update_flight applied repeatedly (Record Merger)
    orig,       \* the record handed to update_flight as original_flight
    scraped,    \* the scraped_data of the last application
    res,        \* [payload, changed, error] of the last application
    napplied,   \* number of applications of update_flight so far
    again,      \* the last application re-used the previous payload as original
    rebuilt,    \* some application so far rebuilt the annotation block
    mpc,        \* "ready": orig awaits a merge; "applied": res holds its result
    \* ---- process_all_flights / scrape_flightera_info (Orchestrator)
    flights,    \* all_flights, as get_all_flights returned it
    pos,        \* enumerate's i + 1: flights taken up so far; the current one is flights[pos]
    pc,         \* position in process_all_flights / scrape_flightera_info
    outcome,    \* how scrape_flightera_info left its preamble for the current flight
    driver,     \* 'driver' in locals() and driver
    sessions,   \* browser sessions open
    facts,      \* scraped_data of the current flight
    upd,        \* result of update_flight for the current flight
    exc,        \* the exception raised while processing the current flight
    saved,      \* flights (by position) whose payload was posted to the save API
    failed,     \* flights (by position) during whose processing an error was raised
    error_log,  \* error_log of process_all_flights
    mode,       \* the branch main takes: "all", "id" or "search"
    escaped,    \* the exception that left main uncaught
    \* ---- find_flight (Matcher)
    records,    \* the flights argument
    query,      \* [flight_number, departure_date, departing_airport]
    scan,       \* records the loop has examined
    found,      \* position of the returned record, 0 for None
    fpc         \* "loop", "returned" or "raised"

mvars == <<orig, scraped, res, napplied, again, rebuilt, mpc>>

ovars == <<flights, pos, pc, outcome, driver, sessions, facts, upd, exc, saved,
           failed, error_log, mode, escaped>>

fvars == <<records, query, scan, found, fpc>>

vars == <<mvars, ovars, fvars>>

(***************************************************************************)
(* Python str operations                                                   *)
(***************************************************************************)
NoneV == <<"<None>">>

\* bool(x) of a str-or-None value
Truthy(s) == s # NoneV /\ s # <<>>

\* str.isspace() of one character
IsSpace(c) == c \in {" ", "\n", "\t"}

RECURSIVE LStrip(_)
LStrip(s) == IF s # <<>> /\ IsSpace(Head(s)) THEN LStrip(Tail(s)) ELSE s

RECURSIVE RStrip(_)
RStrip(s) ==
    IF s # <<>> /\ IsSpace(s[Len(s)]) THEN RStrip(SubSeq(s, 1, Len(s) - 1)) ELSE s

\* str.strip()
Strip(s) == RStrip(LStrip(s))

\* str.lower(), one character
LowerChar(c) ==
    CASE c = "A" -> "a"
      [] c = "B" -> "b"
      [] c = "D" -> "d"
      [] c = "J" -> "j"
      [] c = "K" -> "k"
      [] OTHER -> c

\* str.lower()
Lower(s) == [i \in 1..Len(s) |-> LowerChar(s[i])]

\* s.replace(" ", "")
RemoveSpaces(s) == SelectSeq(s, LAMBDA c : c # " ")

\* a in b (substring test)
Contains(b, a) ==
    \E i \in 1..(Len(b) + 1) :
        /\ i + Len(a) - 1 <= Len(b)
        /\ SubSeq(b, i, i + Len(a) - 1) = a

\* s.split('\n')
RECURSIVE SplitLines(_)
SplitLines(s) ==
    IF \A i \in 1..Len(s) : s[i] # "\n"
    THEN <<s>>
    ELSE LET i == CHOOSE k \in 1..Len(s) :
                      s[k] = "\n" /\ \A j \in 1..(k - 1) : s[j] # "\n"
         IN  <<SubSeq(s, 1, i - 1)>> \o SplitLines(SubSeq(s, i + 1, Len(s)))

\* "\n".join(ls)
RECURSIVE JoinLines(_)
JoinLines(ls) ==
    IF ls = <<>> THEN <<>>
    ELSE IF Len(ls) = 1 THEN ls[1]
    ELSE ls[1] \o <<"\n">> \o JoinLines(Tail(ls))

(***************************************************************************)
(* Timezones and instants                                                  *)
(***************************************************************************)
\* pytz.timezone(name) succeeds
KnownTz(tz) == tz \in {<<"UTC">>, <<"Asia/Tokyo">>, <<"America/Los_Angeles">>}

\* UTC offset in hours of a known zone
TzOffset(tz) ==
    CASE tz = <<"Asia/Tokyo">> -> 9
      [] tz = <<"America/Los_Angeles">> -> 0 - 8
      [] OTHER -> 0

\* A time value is [k, d, h]: k = "utc" an ISO instant (day d, hour h, UTC),
\* k = "date" a '%Y-%m-%d' string (day d), k = "time" a '%H:%M' string (hour h),
\* k = "none" None.
NoTime == [k |-> "none", d |-> 0, h |-> 0]

\* utc_dt.astimezone(local_tz), in hours since day 0
LocalHours(t, tz) == t.d * 24 + t.h + TzOffset(tz)

\* local_dt.strftime('%Y-%m-%d')
LocalDate(t, tz) == [k |-> "date", d |-> LocalHours(t, tz) \div 24, h |-> 0]

\* local_dt.strftime('%H:%M')
LocalTime(t, tz) == [k |-> "time", d |-> 0, h |-> LocalHours(t, tz) % 24]

(***************************************************************************)
(* Record values                                                           *)
(*   airport  [kind, icao, iata, tz]  kind: "absent" (no key), "none",     *)
(*            "dict" (nested object), "str" (flattened, the code in icao)  *)
(*   airline  [kind, name, icao]      kind: "none", "dict", "str"          *)
(*   aircraft [kind, icao]            kind: "none", "dict", "str"          *)
(***************************************************************************)
NoAirport == [kind |-> "absent", icao |-> NoneV, iata |-> NoneV, tz |-> NoneV]

\* the value after payload[key] = payload[key].get('icao')
FlatAirport(a) ==
    IF a.kind # "dict" THEN a
    ELSE [kind |-> IF a.icao = NoneV THEN "none" ELSE "str",
          icao |-> a.icao, iata |-> NoneV, tz |-> NoneV]

FlatAirline(a) ==
    IF a.kind # "dict" THEN a
    ELSE [kind |-> IF a.icao = NoneV THEN "none" ELSE "str",
          name |-> NoneV, icao |-> a.icao]

FlatAircraft(a) ==
    IF a.kind # "dict" THEN a
    ELSE [kind |-> IF a.icao = NoneV THEN "none" ELSE "str", icao |-> a.icao]

\* payload.get(key, {}).get('tz') raises AttributeError on a str or None value
TzLookupRaises(a) == a.kind \in {"str", "none"}

\* payload.get(key, {}).get('tz')
TzOf(a) == IF a.kind = "dict" THEN a.tz ELSE NoneV

\* lines 337-342 / 344-349 raise: the .get on a non-dict, or pytz.timezone
ConversionRaises(t, a) ==
    /\ t.k # "none"
    /\ \/ TzLookupRaises(a)
       \/ Truthy(TzOf(a)) /\ ~KnownTz(TzOf(a))

\* the guard of lines 337 / 344
Converts(t, a) == t.k # "none" /\ Truthy(TzOf(a))

(***************************************************************************)
(* update_flight, lines 326-409: the payload, is_updated, and whether an    *)
(* exception left the function before the save                             *)
(***************************************************************************)
Prefixes == {"Departure:", "Arrival:", "Flightera:", "----------"}

\* the prefix test without the separator marker
IsAnnotationLineNoSeparator(line) ==
    LET t == Strip(line)
    IN  t # <<>> /\ Head(t) \in {"Departure:", "Arrival:", "Flightera:"}

\* line.strip().startswith(('Departure:', 'Arrival:', 'Flightera:', '----------'))
IsAnnotationLine(line) ==
    LET t == Strip(line) IN t # <<>> /\ Head(t) \in Prefixes

\* lines 372-378
NewNotes(sd) ==
    (IF Truthy(sd.departure_status)
        THEN <<(<<"Departure:", " ">> \o sd.departure_status)>> ELSE <<>>)
    \o (IF Truthy(sd.arrival_status)
        THEN <<(<<"Arrival:", " ">> \o sd.arrival_status)>> ELSE <<>>)
    \o (IF Truthy(sd.details_url)
        THEN <<(<<"Flightera:", " ">> \o sd.details_url)>> ELSE <<>>)

\* line 382
ExistingNote(p) == IF Truthy(p.note) THEN p.note ELSE p.notes

\* the cleaned note with the list overwritten instead of appended to: only the
\* last retained line survives
FinalNoteLastLineOnly(existing) ==
    IF ~Truthy(existing) THEN <<>>
    ELSE LET kept == SelectSeq(SplitLines(existing),
                               LAMBDA line : ~IsAnnotationLine(line))
         IN  IF kept = <<>> THEN <<>> ELSE Strip(kept[Len(kept)])

\* lines 383-390
FinalNote(existing) ==
    IF ~Truthy(existing) THEN <<>>
    ELSE Strip(JoinLines(SelectSeq(SplitLines(existing),
                                   LAMBDA line : ~IsAnnotationLine(line))))

\* the new block appended to the note as it stands, nothing stripped
RebuiltNoteAppendOnly(existing, new_notes) ==
    IF Truthy(existing)
    THEN existing \o <<"\n", "----------", "\n">> \o JoinLines(new_notes)
    ELSE JoinLines(new_notes)

\* lines 392-397
RebuiltNote(existing, new_notes) ==
    LET final_note == FinalNote(existing)
        new_note_section == JoinLines(new_notes)
    IN  IF final_note # <<>>
        THEN final_note \o <<"\n", "----------", "\n">> \o new_note_section
        ELSE new_note_section

\* the fill condition without the emptiness test
FillsAircraftAlways(p, sd) == Truthy(sd.aircraft_icao)

\* lines 362 / 367: the fill condition
FillsAircraft(p, sd) == ~Truthy(p.aircraft.icao) /\ Truthy(sd.aircraft_icao)

FillsReg(p, sd) == ~Truthy(p.aircraftReg) /\ Truthy(sd.aircraft_reg)

update_flight(original_flight, scraped_data) ==
    LET o == original_flight
        raises == ConversionRaises(o.departure, o.from)
                  \/ ConversionRaises(o.arrival, o.to)
        \* lines 337-349
        p1 == [o EXCEPT
                 !.departure = IF Converts(o.departure, o.from)
                               THEN LocalDate(o.departure, o.from.tz) ELSE @,
                 !.departureTime = IF Converts(o.departure, o.from)
                               THEN LocalTime(o.departure, o.from.tz) ELSE @,
                 !.arrival = IF Converts(o.arrival, o.to)
                               THEN LocalDate(o.arrival, o.to.tz) ELSE @,
                 !.arrivalTime = IF Converts(o.arrival, o.to)
                               THEN LocalTime(o.arrival, o.to.tz) ELSE @]
        \* lines 352-359
        p2 == [p1 EXCEPT !.from = FlatAirport(@), !.to = FlatAirport(@),
                         !.airline = FlatAirline(@), !.aircraft = FlatAircraft(@)]
        \* lines 362-370
        fillA == FillsAircraft(p2, scraped_data)
        p3 == IF fillA
              THEN [p2 EXCEPT !.aircraft =
                        [kind |-> "str", icao |-> scraped_data.aircraft_icao]]
              ELSE p2
        fillR == FillsReg(p3, scraped_data)
        p4 == IF fillR
              THEN [p3 EXCEPT !.aircraftReg = scraped_data.aircraft_reg] ELSE p3
        \* lines 372-401
        new_notes == NewNotes(scraped_data)
        p5 == IF new_notes # <<>>
              THEN [p4 EXCEPT !.note = RebuiltNote(ExistingNote(p4), new_notes),
                              !.notes = NoneV]
              ELSE p4
        \* lines 404-405
        p6 == [p5 EXCEPT !.duration = NoneV]
    IN  IF raises
        THEN [payload |-> o, changed |-> FALSE, error |-> TRUE]
        ELSE [payload |-> p6,
              changed |-> fillA \/ fillR \/ new_notes # <<>>,
              error |-> FALSE]

(***************************************************************************)
(* Inputs of the merger                                                    *)
(***************************************************************************)
MaxMerges == 2

Tokyo == [kind |-> "dict", icao |-> <<"J", "B">>, iata |-> <<"B", "D">>,
          tz |-> <<"Asia/Tokyo">>]

LosAngeles == [kind |-> "dict", icao |-> <<"K", "A">>, iata |-> <<"A", "K">>,
               tz |-> <<"America/Los_Angeles">>]

NoTzAirport == [kind |-> "dict", icao |-> <<"K", "J">>, iata |-> <<"J", "K">>,
                tz |-> NoneV]

BadTzAirport == [kind |-> "dict", icao |-> <<"K", "J">>, iata |-> <<"J", "K">>,
                 tz |-> <<"Mars/Phobos">>]

Delta == [kind |-> "dict", name |-> <<"d", "a">>, icao |-> <<"DAL">>]

BaseFlight ==
    [id |-> 1, date |-> <<"2024-03-15">>, flightNumber |-> <<"D", "1">>,
     airline |-> Delta,
     aircraft |-> [kind |-> "none", icao |-> NoneV], aircraftReg |-> NoneV,
     note |-> NoneV, notes |-> NoneV,
     departure |-> NoTime, departureTime |-> NoTime, from |-> NoAirport,
     arrival |-> NoTime, arrivalTime |-> NoTime, to |-> NoAirport,
     duration |-> <<"90">>]

MergeAircraft ==
    {[kind |-> "none", icao |-> NoneV], [kind |-> "str", icao |-> <<>>],
     [kind |-> "dict", icao |-> NoneV], [kind |-> "dict", icao |-> <<"A320">>]}

MergeRegs == {NoneV, <<>>, <<"N1">>}

MergeNotes ==
    {NoneV, <<>>,
     <<"x">>,
     <<" ", "x">>,
     <<"x", "\n">>,
     <<"\n", "x", "\n", "y">>,
     <<"x", "\n", " ", "\n", "y">>,
     <<"Departure:", " ", "x">>,
     <<" ", "Flightera:", " ", "u">>,
     <<"x", " ", "Arrival:">>,
     <<"x", "\n", "----------", "\n", "Departure:", " ", "y", "\n",
       "Flightera:", " ", "u">>,
     <<"----------", "\n", "x", "\n", "----------", "\n", "Flightera:">>,
     <<"Departure:", "\n", "x", "\n", "Departure:", "\n", " ", "y", " ">>,
     <<"\t", "----------", "-", "\n", "\n">>}

MergeLegacyNotes == {NoneV, <<"y", "\n", "Arrival:", "x">>}

\* [departure, from, arrival, to]
MergeTimes ==
    {<<NoTime, NoAirport, NoTime, NoAirport>>,
     <<[k |-> "utc", d |-> 5, h |-> 20], Tokyo, NoTime, LosAngeles>>,
     <<[k |-> "utc", d |-> 5, h |-> 20], NoTzAirport,
       [k |-> "utc", d |-> 6, h |-> 3], LosAngeles>>,
     <<[k |-> "utc", d |-> 5, h |-> 20], BadTzAirport, NoTime, NoAirport>>}

MergeRecords ==
    {[BaseFlight EXCEPT !.aircraft = a, !.aircraftReg = r, !.note = n,
                        !.notes = l, !.departure = t[1], !.from = t[2],
                        !.arrival = t[3], !.to = t[4]] :
        a \in MergeAircraft, r \in MergeRegs, n \in MergeNotes,
        l \in MergeLegacyNotes, t \in MergeTimes}

\* [departure_status, arrival_status, details_url]: single-line texts, as
\* parse_flight_html strips them (lines 293-298)
MergeStatuses ==
    {<<NoneV, NoneV, NoneV>>,
     <<<<>>, NoneV, NoneV>>,
     <<<<"x">>, NoneV, NoneV>>,
     <<NoneV, <<"y", " ", "x">>, <<"u">>>>,
     <<<<"x">>, <<"y">>, <<"u">>>>}

NoFacts ==
    [aircraft_name |-> NoneV, aircraft_icao |-> NoneV, aircraft_reg |-> NoneV,
     departure_status |-> NoneV, arrival_status |-> NoneV, details_url |-> NoneV,
     scraped_airline |-> <<"d", "a">>, scraped_flight_number |-> <<"D", "1">>]

MergeFacts ==
    {[NoFacts EXCEPT !.aircraft_icao = a, !.aircraft_reg = r,
                     !.departure_status = st[1], !.arrival_status = st[2],
                     !.details_url = st[3]] :
        a \in {NoneV, <<"B738">>}, r \in {NoneV, <<"N123DL">>},
        st \in MergeStatuses}

NoResult(o) == [payload |-> o, changed |-> FALSE, error |-> FALSE]

NoException == [name |-> "none", args |-> <<>>]

NoQuery == [flight_number |-> <<>>, departure_date |-> 0,
            departing_airport |-> <<>>]

\* the matcher's variables while it is not exercised
MatcherIdle ==
    /\ records = <<>>
    /\ query = NoQuery
    /\ scan = 0
    /\ found = 0
    /\ fpc = "idle"

\* the orchestrator's variables while only the merger is exercised
OrchestratorIdle ==
    /\ flights = <<>>
    /\ pos = 0
    /\ pc = "idle"
    /\ outcome = "none"
    /\ driver = FALSE
    /\ sessions = 0
    /\ facts = NoFacts
    /\ upd = NoResult(BaseFlight)
    /\ exc = NoException
    /\ saved = {}
    /\ failed = {}
    /\ error_log = <<>>
    /\ mode = "none"
    /\ escaped = NoException

(***************************************************************************)
(* The merger applied repeatedly                                           *)
(***************************************************************************)
InitMerge ==
    /\ orig \in MergeRecords
    /\ scraped = NoFacts
    /\ res = NoResult(orig)
    /\ napplied = 0
    /\ again = FALSE
    /\ rebuilt = FALSE
    /\ mpc = "ready"
    /\ OrchestratorIdle
    /\ MatcherIdle

\* update_flight(orig, sd) on a record as fetched
Merge(sd) ==
    /\ mpc = "ready"
    /\ napplied < MaxMerges
    /\ scraped' = sd
    /\ res' = update_flight(orig, sd)
    /\ napplied' = napplied + 1
    /\ again' = FALSE
    /\ rebuilt' = (rebuilt \/ (~res'.error /\ NewNotes(sd) # <<>>))
    /\ mpc' = "applied"
    /\ UNCHANGED <<orig, ovars, fvars>>

\* update_flight once more on the same scraped_data, with the payload of the
\* previous application as original_flight
MergeAgain ==
    /\ mpc = "applied"
    /\ ~res.error
    /\ ~again
    /\ orig' = res.payload
    /\ res' = update_flight(res.payload, scraped)
    /\ napplied' = napplied + 1
    /\ again' = TRUE
    /\ rebuilt' = (rebuilt \/ (~res'.error /\ NewNotes(scraped) # <<>>))
    /\ UNCHANGED <<scraped, mpc, ovars, fvars>>

\* the record as the flight-log API returns it after the save of the payload
\* (lines 411-418): its aircraft, registration and note are the payload's
Refetch ==
    /\ mpc = "applied"
    /\ ~res.error
    /\ ~again
    /\ napplied < MaxMerges
    /\ orig' = [orig EXCEPT
                   !.aircraft = IF Truthy(res.payload.aircraft.icao)
                                THEN [kind |-> "dict", icao |-> res.payload.aircraft.icao]
                                ELSE [kind |-> "none", icao |-> NoneV],
                   !.aircraftReg = res.payload.aircraftReg,
                   !.note = res.payload.note,
                   !.notes = res.payload.notes]
    /\ res' = NoResult(orig')
    /\ scraped' = NoFacts
    /\ mpc' = "ready"
    /\ UNCHANGED <<napplied, again, rebuilt, ovars, fvars>>

NextMerge ==
    \/ \E sd \in MergeFacts : Merge(sd)
    \/ MergeAgain
    \/ Refetch

SpecMerge == InitMerge /\ [][NextMerge]_vars

(***************************************************************************)
(* scrape_flightera_info, lines 171-254                                    *)
(***************************************************************************)
\* datetime.strptime(departure_date_str, "%Y-%m-%d") succeeds (line 178)
DateParses(ds) == ds \in {<<"2024-03-15">>, <<"2999-01-01">>}

\* flight_date > datetime.now().date() (line 179)
IsFutureDate(ds) == ds = <<"2999-01-01">>

\* line 185
AircraftPresent(f) ==
    \/ f.aircraft.kind = "dict" /\ Truthy(f.aircraft.icao)
    \/ f.aircraft.kind = "str"

\* line 186
RegPresent(f) == Truthy(f.aircraftReg)

\* line 187
NotePresent(f) ==
    f.note # NoneV /\ \E k \in 1..Len(f.note) : f.note[k] = "Flightera:"

\* line 195
AirlineMissing(f) == f.airline.kind # "dict" \/ ~Truthy(f.airline.name)

\* line 200
IdentityMissing(f) == ~Truthy(f.flightNumber) \/ ~Truthy(f.date)

\* lines 176-208: how the function leaves its preamble (the strptime of line
\* 204 repeats that of line 178 on the same string, so it cannot raise)
Preamble(f) ==
    IF Truthy(f.date) /\ ~DateParses(f.date) THEN "ValueError"
    ELSE IF Truthy(f.date) /\ IsFutureDate(f.date) THEN "future"
    ELSE IF AircraftPresent(f) /\ RegPresent(f) /\ NotePresent(f) THEN "complete"
    ELSE IF AirlineMissing(f) \/ IdentityMissing(f) THEN "MissingDataError"
    ELSE "scrape"

\* lines 240-242
AirlineMatch(f, sd) ==
    LET original_airline_lower == Lower(Strip(f.airline.name))
        scraped_airline_lower == Lower(Strip(sd.scraped_airline))
    IN  \/ Contains(scraped_airline_lower, original_airline_lower)
        \/ Contains(original_airline_lower, scraped_airline_lower)

\* line 243
FlightNumMatch(f, sd) ==
    Lower(Strip(f.flightNumber)) = Lower(Strip(sd.scraped_flight_number))

\* the test of line 245 with `or` for `and`
IdentityMatchesEither(f, sd) == AirlineMatch(f, sd) \/ FlightNumMatch(f, sd)

\* line 245
IdentityMatches(f, sd) == AirlineMatch(f, sd) /\ FlightNumMatch(f, sd)

\* the message of the DataMismatchError of line 246
MismatchArgs(f, sd) ==
    <<Strip(f.airline.name), Strip(f.flightNumber),
      Strip(sd.scraped_airline), Strip(sd.scraped_flight_number)>>

Exception(name) == [name |-> name, args |-> <<>>]

(***************************************************************************)
(* Inputs of the orchestrator                                              *)
(***************************************************************************)
MaxFlights == 2

PastDate == <<"2024-03-15">>

MarkedNote == <<"x", "\n", "----------", "\n", "Flightera:", " ", "u">>

GoodFlight ==
    [BaseFlight EXCEPT !.departure = [k |-> "utc", d |-> 5, h |-> 20],
                       !.from = Tokyo]

BatchFlights ==
    {GoodFlight,
     [GoodFlight EXCEPT !.airline = [kind |-> "none", name |-> NoneV, icao |-> NoneV]],
     [GoodFlight EXCEPT !.date = <<"15/03/2024">>],
     [GoodFlight EXCEPT !.date = <<"2999-01-01">>],
     [GoodFlight EXCEPT !.aircraft = [kind |-> "dict", icao |-> <<"A320">>],
                        !.aircraftReg = <<"N1">>, !.note = MarkedNote],
     [GoodFlight EXCEPT !.from = BadTzAirport]}

RecordAirlines ==
    {[kind |-> "none", name |-> NoneV, icao |-> NoneV],
     [kind |-> "dict", name |-> <<>>, icao |-> <<"DAL">>],
     [kind |-> "dict", name |-> <<"d", "a">>, icao |-> <<"DAL">>],
     [kind |-> "dict", name |-> <<" ", "D">>, icao |-> <<"DAL">>]}

RecordFlightNumbers ==
    {NoneV, <<"D", " ", "1">>, <<"d", "1", " ">>, <<"D", "2">>}

RecordAircraft == MergeAircraft \cup {[kind |-> "str", icao |-> <<"A320">>]}

RecordFlights ==
    {[GoodFlight EXCEPT !.date = dt, !.aircraft = a, !.aircraftReg = r,
                        !.note = n, !.airline = al, !.flightNumber = fn] :
        dt \in {NoneV, PastDate, <<"2999-01-01">>, <<"15/03/2024">>},
        a \in RecordAircraft, r \in MergeRegs,
        n \in {NoneV, <<"x">>, MarkedNote},
        al \in RecordAirlines, fn \in RecordFlightNumbers}

\* what parse_flight_html returns for a row: the identity comes from the
\* details URL (lines 299-307), so it is present exactly when the URL is
PageFacts ==
    {[NoFacts EXCEPT !.aircraft_icao = ar[1], !.aircraft_reg = ar[2],
                     !.departure_status = <<"x">>,
                     !.details_url = NoneV,
                     !.scraped_airline = NoneV,
                     !.scraped_flight_number = NoneV] :
        ar \in {<<NoneV, NoneV>>, <<<<"B738">>, <<"N123DL">>>>}}
    \cup
    {[NoFacts EXCEPT !.aircraft_icao = ar[1], !.aircraft_reg = ar[2],
                     !.departure_status = <<"x">>,
                     !.details_url = <<"u">>,
                     !.scraped_airline = al,
                     !.scraped_flight_number = fn] :
        ar \in {<<NoneV, NoneV>>, <<<<"B738">>, <<"N123DL">>>>},
        al \in {<<"d">>, <<"D", "A", " ">>, <<"b">>},
        fn \in {<<"D", "1">>, <<"d", "1">>, <<"d", "2">>}}

\* how the save request of lines 415-418 ends
SaveOutcomes == {"ok", "RequestException", "JSONDecodeError"}

\* the merger's variables while only the orchestrator is exercised
MergerIdle ==
    /\ orig = BaseFlight
    /\ scraped = NoFacts
    /\ res = NoResult(BaseFlight)
    /\ napplied = 0
    /\ again = FALSE
    /\ rebuilt = FALSE
    /\ mpc = "idle"

(***************************************************************************)
(* process_all_flights (lines 441-477) over scrape_flightera_info          *)
(***************************************************************************)
flight == flights[pos]

OrchestratorStart ==
    /\ pos = 0
    /\ pc = "main"
    /\ outcome = "none"
    /\ driver = FALSE
    /\ sessions = 0
    /\ facts = NoFacts
    /\ upd = NoResult(BaseFlight)
    /\ exc = NoException
    /\ saved = {}
    /\ failed = {}
    /\ error_log = <<>>
    /\ escaped = NoException

\* line 144: main was started with --all
Init ==
    /\ mode = "all"
    /\ flights \in UNION {[1..n -> BatchFlights] : n \in 0..MaxFlights}
    /\ OrchestratorStart
    /\ MergerIdle
    /\ MatcherIdle

InitRecord ==
    /\ mode = "all"
    /\ flights \in {<<f>> : f \in RecordFlights}
    /\ OrchestratorStart
    /\ MergerIdle
    /\ MatcherIdle

\* lines 445-452
GetAllFlights ==
    /\ pc = "main"
    /\ pc' = IF flights = <<>> THEN "done" ELSE "loop"
    /\ UNCHANGED <<flights, pos, outcome, driver, sessions, facts, upd, exc,
                   saved, failed, error_log, mvars, fvars, mode, escaped>>

\* lines 454-459: the loop takes up the next flight and calls
\* scrape_flightera_info, which runs its preamble (lines 176-212)
ScrapeEntry ==
    /\ pc = "loop"
    /\ pos < Len(flights)
    /\ pos' = pos + 1
    /\ LET o == Preamble(flights[pos + 1])
       IN  /\ outcome' = o
           /\ exc' = IF o \in {"ValueError", "MissingDataError"}
                     THEN Exception(o) ELSE NoException
           /\ failed' = IF o \in {"ValueError", "MissingDataError"}
                        THEN failed \cup {pos + 1} ELSE failed
           /\ pc' = CASE o \in {"ValueError", "MissingDataError"} -> "except"
                      [] o \in {"future", "complete"} -> "loop"
                      [] OTHER -> "acquire"
    /\ facts' = NoFacts
    /\ upd' = NoResult(BaseFlight)
    /\ UNCHANGED <<flights, driver, sessions, saved, error_log, mvars, fvars, mode, escaped>>

\* lines 220-221: the driver binary is installed and the browser started; a
\* failure of either leaves no driver
AcquireSession ==
    /\ pc = "acquire"
    /\ \E ok \in BOOLEAN :
          IF ok
          THEN /\ driver' = TRUE
               /\ sessions' = sessions + 1
               /\ pc' = "fetch"
               /\ UNCHANGED <<exc, failed>>
          ELSE /\ exc' = Exception("WebDriverException")
               /\ failed' = failed \cup {pos}
               /\ pc' = "finally"
               /\ UNCHANGED <<driver, sessions>>
    /\ UNCHANGED <<flights, pos, outcome, facts, upd, saved, error_log, mvars, fvars, mode, escaped>>

\* lines 224-230: the page is fetched and parsed; None when no row has the date
FetchAndParse ==
    /\ pc = "fetch"
    /\ \E r \in {"WebDriverException", "no_row", "row"} :
          CASE r = "WebDriverException" ->
                  /\ exc' = Exception(r)
                  /\ failed' = failed \cup {pos}
                  /\ pc' = "finally"
                  /\ UNCHANGED <<facts, outcome>>
            [] r = "no_row" ->
                  /\ outcome' = "no_row"
                  /\ pc' = "finally"
                  /\ UNCHANGED <<facts, exc, failed>>
            [] OTHER ->
                  /\ \E sd \in PageFacts : facts' = sd
                  /\ outcome' = "row"
                  /\ pc' = "validate"
                  /\ UNCHANGED <<exc, failed>>
    /\ UNCHANGED <<flights, pos, driver, sessions, upd, saved, error_log, mvars, fvars, mode, escaped>>

\* lines 232-246: .strip() of a None identity raises AttributeError; a
\* mismatch raises DataMismatchError; both are caught at line 250
Validate ==
    /\ pc = "validate"
    /\ IF facts.scraped_airline = NoneV \/ facts.scraped_flight_number = NoneV
       THEN /\ exc' = Exception("AttributeError")
            /\ failed' = failed \cup {pos}
            /\ pc' = "finally"
       ELSE IF ~IdentityMatches(flight, facts)
       THEN /\ exc' = [name |-> "DataMismatchError",
                       args |-> MismatchArgs(flight, facts)]
            /\ failed' = failed \cup {pos}
            /\ pc' = "finally"
       ELSE /\ pc' = "update"
            /\ UNCHANGED <<exc, failed>>
    /\ UNCHANGED <<flights, pos, outcome, driver, sessions, facts, upd, saved,
                   error_log, mvars, fvars, mode, escaped>>

\* line 248: update_flight; an exception of its conversions is caught at line
\* 250, one of the save request at line 419 (or 250), and only logged
UpdateFlight ==
    /\ pc = "update"
    /\ upd' = update_flight(flight, facts)
    /\ outcome' = "merged"
    /\ IF upd'.error
       THEN /\ exc' = Exception("UnknownTimeZoneError")
            /\ failed' = failed \cup {pos}
            /\ UNCHANGED saved
       ELSE IF upd'.changed
       THEN /\ saved' = saved \cup {pos}
            /\ \E so \in SaveOutcomes :
                  /\ exc' = IF so = "ok" THEN NoException ELSE Exception(so)
                  /\ failed' = IF so = "ok" THEN failed ELSE failed \cup {pos}
       ELSE UNCHANGED <<saved, exc, failed>>
    /\ pc' = "finally"
    /\ UNCHANGED <<flights, pos, driver, sessions, facts, error_log, mvars, fvars, mode, escaped>>

\* the finally clause with the quit inside the try body: skipped on an error
ReleaseSessionUnlessRaised ==
    /\ pc = "finally"
    /\ IF driver /\ exc = NoException
       THEN sessions' = sessions - 1 /\ driver' = FALSE
       ELSE UNCHANGED <<sessions, driver>>
    /\ pc' = "loop"
    /\ UNCHANGED <<flights, pos, outcome, facts, upd, exc, saved, failed,
                   error_log, mvars, fvars, mode, escaped>>

\* lines 252-254
ReleaseSession ==
    /\ pc = "finally"
    /\ IF driver
       THEN sessions' = sessions - 1 /\ driver' = FALSE
       ELSE UNCHANGED <<sessions, driver>>
    /\ pc' = "loop"
    /\ UNCHANGED <<flights, pos, outcome, facts, upd, exc, saved, failed,
                   error_log, mvars, fvars, mode, escaped>>

\* lines 460-468
RecordFailure ==
    /\ pc = "except"
    /\ error_log' = Append(error_log, [flight |-> pos, error_message |-> exc])
    /\ pc' = "loop"
    /\ UNCHANGED <<flights, pos, outcome, driver, sessions, facts, upd, exc,
                   saved, failed, mvars, fvars, mode, escaped>>

\* lines 470-477
Report ==
    /\ pc = "loop"
    /\ pos = Len(flights)
    /\ pc' = "done"
    /\ UNCHANGED <<flights, pos, outcome, driver, sessions, facts, upd, exc,
                   saved, failed, error_log, mvars, fvars, mode, escaped>>

Next ==
    \/ GetAllFlights
    \/ ScrapeEntry
    \/ AcquireSession
    \/ FetchAndParse
    \/ Validate
    \/ UpdateFlight
    \/ ReleaseSession
    \/ RecordFailure
    \/ Report

Spec == Init /\ [][Next]_vars

SpecRecord == InitRecord /\ [][Next]_vars

(***************************************************************************)
(* find_flight, lines 28-65                                                *)
(***************************************************************************)
MaxRecords == 2

\* an ISO string datetime.fromisoformat rejects
BadTime == [k |-> "bad", d |-> 0, h |-> 0]

\* .get('icao', '') / .get('iata', ''): '' when the key is missing
CodeOf(c) == IF c = NoneV THEN <<>> ELSE c

\* lines 52-56: the local calendar date of the departure, as a day number
FlightLocalDate(f) == LocalHours(f.departure, f.from.tz) \div 24

\* the date comparison of line 61 done on the UTC date
ExamineUtcDate(f, q) ==
    IF ~Truthy(f.flightNumber) THEN "skip"
    ELSE IF f.departure.k = "none" \/ ~Truthy(TzOf(f.from)) THEN "skip"
    ELSE IF f.departure.k = "bad" \/ ~KnownTz(f.from.tz) THEN "skip"
    ELSE IF /\ Lower(RemoveSpaces(f.flightNumber))
                  = Lower(RemoveSpaces(q.flight_number))
            /\ f.departure.d = q.departure_date
            /\ \/ Lower(CodeOf(f.from.icao)) = Lower(q.departing_airport)
               \/ Lower(CodeOf(f.from.iata)) = Lower(q.departing_airport)
         THEN "match"
         ELSE "no_match"

\* lines 37-63, one iteration: "skip" (continue), "match" (return flight),
\* "no_match" (fall through to the next record)
Examine(f, q) ==
    IF ~Truthy(f.flightNumber) THEN "skip"
    ELSE IF f.departure.k = "none" \/ ~Truthy(TzOf(f.from)) THEN "skip"
    ELSE IF f.departure.k = "bad" \/ ~KnownTz(f.from.tz) THEN "skip"
    ELSE IF /\ Lower(RemoveSpaces(f.flightNumber))
                  = Lower(RemoveSpaces(q.flight_number))
            /\ FlightLocalDate(f) = q.departure_date
            /\ \/ Lower(CodeOf(f.from.icao)) = Lower(q.departing_airport)
               \/ Lower(CodeOf(f.from.iata)) = Lower(q.departing_airport)
         THEN "match"
         ELSE "no_match"

\* departs 20:00 UTC on day 5 from Tokyo: 05:00 on day 6 locally
MatchFlight ==
    [BaseFlight EXCEPT !.flightNumber = <<"D", " ", "1">>,
                       !.departure = [k |-> "utc", d |-> 5, h |-> 20],
                       !.from = Tokyo]

MatchFlights ==
    {MatchFlight,
     [MatchFlight EXCEPT !.flightNumber = <<"d", "1">>,
                         !.departure = [k |-> "utc", d |-> 5, h |-> 3]],
     [MatchFlight EXCEPT !.departure = [k |-> "utc", d |-> 6, h |-> 3],
                         !.from = LosAngeles],
     [MatchFlight EXCEPT !.departure = [k |-> "utc", d |-> 6, h |-> 12],
                         !.from = [Tokyo EXCEPT !.iata = NoneV]],
     [MatchFlight EXCEPT !.departure = NoTime],
     [MatchFlight EXCEPT !.departure = BadTime],
     [MatchFlight EXCEPT !.from = [Tokyo EXCEPT !.tz = NoneV]],
     [MatchFlight EXCEPT !.from = [Tokyo EXCEPT !.tz = <<"Mars/Phobos">>]],
     [MatchFlight EXCEPT !.from = NoAirport],
     [MatchFlight EXCEPT !.flightNumber = NoneV],
     [MatchFlight EXCEPT !.flightNumber = <<>>],
     [MatchFlight EXCEPT !.flightNumber = <<"D", "2">>]}

Queries ==
    {[flight_number |-> fn, departure_date |-> dt, departing_airport |-> ap] :
        fn \in {<<"d", "1">>, <<"D", "1", " ">>, <<"d", "2">>},
        dt \in {5, 6},
        ap \in {<<"j", "b">>, <<"B", "D">>, <<"k", "a">>}}

InitMatch ==
    /\ records \in UNION {[1..n -> MatchFlights] : n \in 0..MaxRecords}
    /\ query \in Queries
    /\ scan = 0
    /\ found = 0
    /\ fpc = "loop"
    /\ MergerIdle
    /\ OrchestratorIdle

\* lines 36-63: one iteration of the loop
FindStep ==
    /\ fpc = "loop"
    /\ scan < Len(records)
    /\ scan' = scan + 1
    /\ LET r == Examine(records[scan + 1], query)
       IN  /\ found' = IF r = "match" THEN scan + 1 ELSE 0
           /\ fpc' = CASE r = "match" -> "returned"
                       [] r = "raise" -> "raised"
                       [] OTHER -> "loop"
    /\ UNCHANGED <<records, query, mvars, ovars>>

\* line 65
FindNone ==
    /\ fpc = "loop"
    /\ scan = Len(records)
    /\ found' = 0
    /\ fpc' = "returned"
    /\ UNCHANGED <<records, query, scan, mvars, ovars>>

NextMatch == FindStep \/ FindNone

SpecMatch == InitMatch /\ [][NextMatch]_vars

(***************************************************************************)
(* main, lines 144-169: the single-record modes                            *)
(***************************************************************************)
\* find_flight as a function (lines 36-65): the position of the first record
\* the loop returns, 0 for None
RECURSIVE FirstMatch(_, _, _)
FirstMatch(fl, q, k) ==
    IF k > Len(fl) THEN 0
    ELSE IF Examine(fl[k], q) = "match" THEN k
    ELSE FirstMatch(fl, q, k + 1)

find_flight(fl, q) == FirstMatch(fl, q, 1)

\* records the flight-log API may hold
MainFlights ==
    BatchFlights
    \cup {[GoodFlight EXCEPT !.flightNumber = <<"D", "2">>],
          [GoodFlight EXCEPT !.date = NoneV]}

\* --flight-number, --date (as a day number), --airport
MainQueries ==
    {[flight_number |-> <<"d", " ", "1">>, departure_date |-> 6,
      departing_airport |-> <<"j", "b">>],
     [flight_number |-> <<"D", "2">>, departure_date |-> 6,
      departing_airport |-> <<"B", "D">>]}

\* how requests.get / raise_for_status / response.json().get end (lines
\* 149-151, 432-434): a transport or HTTP error, a body that is not JSON, a
\* JSON body that is not an object (.get raises AttributeError), or a body
\* that is read
FetchOutcomes == {"RequestException", "JSONDecodeError", "AttributeError", "ok"}

InitMain ==
    /\ mode \in {"id", "search"}
    /\ flights = <<>>
    /\ OrchestratorStart
    /\ MergerIdle
    /\ MatcherIdle

\* lines 146-155: --id.  Everything from the request on is inside the try of
\* line 148
MainById ==
    /\ pc = "main"
    /\ mode = "id"
    /\ \E r \in FetchOutcomes :
          IF r # "ok"
          THEN /\ exc' = Exception(r)
               /\ pc' = "main_except"
               /\ UNCHANGED <<flights, pos>>
          ELSE \E fl \in UNION {[1..n -> MainFlights] : n \in 0..1} :
                  /\ flights' = fl
                  /\ pos' = Len(fl)
                  /\ pc' = IF fl = <<>> THEN "done" ELSE "entry"
                  /\ UNCHANGED exc
    /\ UNCHANGED <<outcome, driver, sessions, facts, upd, saved, failed,
                   error_log, mvars, fvars, mode, escaped>>

\* lines 158-167: the search.  get_all_flights (lines 425-439) catches
\* RequestException and JSONDecodeError and returns []; nothing else is in a
\* try.  flights becomes the one record handed to scrape_flightera_info
MainSearch ==
    /\ pc = "main"
    /\ mode = "search"
    /\ \E r \in FetchOutcomes :
          CASE r \in {"RequestException", "JSONDecodeError"} ->
                  /\ exc' = Exception(r)
                  /\ pc' = "done"
                  /\ UNCHANGED <<flights, pos, escaped, fvars>>
            [] r = "AttributeError" ->
                  /\ exc' = Exception(r)
                  /\ escaped' = Exception(r)
                  /\ pc' = "raised"
                  /\ UNCHANGED <<flights, pos, fvars>>
            [] OTHER ->
                  \E fl \in UNION {[1..n -> MainFlights] : n \in 0..MaxRecords},
                     q \in MainQueries :
                     LET k == IF fl = <<>> THEN 0 ELSE find_flight(fl, q)
                     IN  /\ records' = fl
                         /\ query' = IF fl = <<>> THEN NoQuery ELSE q
                         /\ scan' = IF k = 0 THEN Len(fl) ELSE k
                         /\ found' = k
                         /\ fpc' = IF fl = <<>> THEN "idle" ELSE "returned"
                         /\ flights' = IF k = 0 THEN <<>> ELSE <<fl[k]>>
                         /\ pos' = IF k = 0 THEN 0 ELSE 1
                         /\ pc' = IF k = 0 THEN "done" ELSE "entry"
                         /\ UNCHANGED <<exc, escaped>>
    /\ UNCHANGED <<outcome, driver, sessions, facts, upd, saved, failed,
                   error_log, mvars, mode>>

\* lines 153 / 165: scrape_flightera_info is called and runs its preamble
\* (lines 176-212).  What the preamble raises reaches the except of line 156
\* in --id mode and leaves main in search mode
MainScrapeEntry ==
    /\ pc = "entry"
    /\ LET o == Preamble(flight)
           raises == o \in {"ValueError", "MissingDataError"}
       IN  /\ outcome' = o
           /\ exc' = IF raises THEN Exception(o) ELSE NoException
           /\ failed' = IF raises THEN failed \cup {pos} ELSE failed
           /\ escaped' = IF raises /\ mode = "search" THEN Exception(o) ELSE escaped
           /\ pc' = CASE raises /\ mode = "id" -> "main_except"
                      [] raises /\ mode = "search" -> "raised"
                      [] o \in {"future", "complete"} -> "done"
                      [] OTHER -> "acquire"
    /\ UNCHANGED <<flights, pos, driver, sessions, facts, upd, saved, error_log,
                   mvars, fvars, mode>>

\* lines 156-157: the error is logged and main returns
MainExcept ==
    /\ pc = "main_except"
    /\ error_log' = Append(error_log, [flight |-> pos, error_message |-> exc])
    /\ pc' = "done"
    /\ UNCHANGED <<flights, pos, outcome, driver, sessions, facts, upd, exc,
                   saved, failed, mvars, fvars, mode, escaped>>

\* scrape_flightera_info returns after its finally clause, and main with it
MainReturn ==
    /\ pc = "loop"
    /\ mode \in {"id", "search"}
    /\ pc' = "done"
    /\ UNCHANGED <<flights, pos, outcome, driver, sessions, facts, upd, exc,
                   saved, failed, error_log, mvars, fvars, mode, escaped>>

NextMain ==
    \/ MainById
    \/ MainSearch
    \/ MainScrapeEntry
    \/ AcquireSession
    \/ FetchAndParse
    \/ Validate
    \/ UpdateFlight
    \/ ReleaseSession
    \/ MainExcept
    \/ MainReturn

SpecMain == InitMain /\ [][NextMain]_vars

(***************************************************************************)
(* Claims                                                                  *)
(***************************************************************************)
Applied == mpc = "applied" /\ ~res.error

\* a payload whose departure (arrival) is set while its origin (destination)
\* is no longer a nested object: lines 337 / 344 raise on it
FlattenedWithTime(p) ==
    \/ p.departure.k # "none" /\ p.from.kind # "absent"
    \/ p.arrival.k # "none" /\ p.to.kind # "absent"

\* C1 as stated: the second application of update_flight to the same scraped
\* facts, on the first application's payload, completes without error and
\* with changed = false.
C1_SecondApplicationUnchanged == again => (~res.error /\ ~res.changed)

\* C1 amended: the second application raises exactly when the first payload
\* carries a departure or arrival value beside a flattened airport; when it
\* completes, changed is true exactly when the scraped facts yield an
\* annotation line, and the payload's aircraft, registration and note are
\* those of the first payload.
C1_SecondApplicationRewritesBlock ==
    again =>
        /\ res.error <=> FlattenedWithTime(orig)
        /\ ~res.error =>
              /\ res.changed <=> (Truthy(scraped.departure_status)
                                  \/ Truthy(scraped.arrival_status)
                                  \/ Truthy(scraped.details_url))
              /\ res.payload.note = orig.note
              /\ res.payload.aircraft = orig.aircraft
              /\ res.payload.aircraftReg = orig.aircraftReg

C1_Witness ==
    /\ again /\ ~res.error /\ res.changed
    /\ Truthy(orig.note) /\ res.payload.note = orig.note
    /\ Truthy(orig.aircraftReg)

\* the number of lines of a note that begin with a token
LinesBeginning(note, tok) ==
    IF note = NoneV THEN 0
    ELSE LET ls == SplitLines(note)
         IN  Cardinality({i \in 1..Len(ls) :
                            LET t == Strip(ls[i]) IN t # <<>> /\ Head(t) = tok})

\* at most one separator line and one line each of the three prefixes
AtMostOneBlock(note) ==
    \A tok \in {"----------", "Departure:", "Arrival:", "Flightera:"} :
        LinesBeginning(note, tok) <= 1

StoredAircraft(o) == IF o.aircraft.kind = "none" THEN NoneV ELSE o.aircraft.icao

\* C6: the payload's aircraft differs from the stored one only if the stored
\* one is empty, and then it is the scraped ICAO code; likewise the
\* registration; a non-empty stored value is kept.
C6_FillOnlyIfEmpty ==
    Applied =>
        /\ Truthy(StoredAircraft(orig)) =>
              res.payload.aircraft.icao = StoredAircraft(orig)
        /\ res.payload.aircraft.icao # StoredAircraft(orig) =>
              /\ Truthy(scraped.aircraft_icao)
              /\ res.payload.aircraft.icao = scraped.aircraft_icao
        /\ Truthy(orig.aircraftReg) => res.payload.aircraftReg = orig.aircraftReg
        /\ res.payload.aircraftReg # orig.aircraftReg =>
              /\ Truthy(scraped.aircraft_reg)
              /\ res.payload.aircraftReg = scraped.aircraft_reg

C6_Witness ==
    /\ Applied /\ ~again
    /\ Truthy(StoredAircraft(orig)) /\ Truthy(scraped.aircraft_icao)
    /\ StoredAircraft(orig) # scraped.aircraft_icao
    /\ res.payload.aircraft.icao = StoredAircraft(orig)
    /\ ~Truthy(orig.aircraftReg)
    /\ res.payload.aircraftReg = scraped.aircraft_reg
    /\ Truthy(scraped.aircraft_reg)

\* the text of the note update_flight starts from, None read as no text
NoteLines(o) ==
    IF Truthy(ExistingNote(o)) THEN SplitLines(ExistingNote(o)) ELSE <<>>

Separator == <<"----------">>

\* C10 as stated: the new note is the original lines that do not begin with
\* a listed prefix, unaltered, then a separator line and the new block if
\* there is such a line, else the block alone.
C10_OtherLinesUnaltered ==
    (Applied /\ NewNotes(scraped) # <<>>) =>
        LET kept == SelectSeq(NoteLines(orig),
                        LAMBDA l : ~(l # <<>> /\ Head(l) \in Prefixes))
        IN  res.payload.note =
                IF kept # <<>>
                THEN JoinLines(kept \o <<Separator>> \o NewNotes(scraped))
                ELSE JoinLines(NewNotes(scraped))

\* C10 amended: the retained lines are those whose text, trimmed of
\* surrounding whitespace, does not begin with a listed prefix; they are
\* joined in order and the whole is trimmed of leading and trailing
\* whitespace; a separator line and the block follow if that text is not
\* empty, else the block is the entire note.
C10_OtherLinesKeptTrimmed ==
    (Applied /\ NewNotes(scraped) # <<>>) =>
        LET kept == SelectSeq(NoteLines(orig),
                        LAMBDA l : LET t == Strip(l)
                                   IN  ~(t # <<>> /\ Head(t) \in Prefixes))
            body == Strip(JoinLines(kept))
        IN  res.payload.note =
                IF body # <<>>
                THEN JoinLines(<<body, Separator>> \o NewNotes(scraped))
                ELSE JoinLines(NewNotes(scraped))

C10_Witness ==
    /\ Applied /\ ~again /\ NewNotes(scraped) # <<>>
    /\ Len(NoteLines(orig)) >= 3
    /\ \E i \in 1..Len(NoteLines(orig)) : IsAnnotationLine(NoteLines(orig)[i])
    /\ Len(SplitLines(res.payload.note)) >= 4
    /\ SplitLines(res.payload.note)[1] = <<"x">>
    /\ SplitLines(res.payload.note)[2] = <<"y">>

(***************************************************************************)
(* Claims about the orchestrator                                           *)
(***************************************************************************)
HasIdentity(sd) == sd.scraped_airline # NoneV /\ sd.scraped_flight_number # NoneV

\* the flight numbers are equal, and one airline name contains the other,
\* both case-insensitively after trimming
IdentityAgrees(f, sd) ==
    LET oa == Lower(Strip(f.airline.name))
        sa == Lower(Strip(sd.scraped_airline))
    IN  /\ Lower(Strip(f.flightNumber)) = Lower(Strip(sd.scraped_flight_number))
        /\ Contains(oa, sa) \/ Contains(sa, oa)

\* validation of the current flight's scraped row is over
Validated == pos >= 1 /\ outcome \in {"row", "merged"} /\ pc # "validate"

C4_ReportHoldsEveryFailure ==
    pc = "done" =>
        /\ pos = Len(flights)
        /\ {error_log[k].flight : k \in 1..Len(error_log)} = failed
        /\ Len(error_log) = Cardinality(failed)

\* C5: at most one session is open at any time, the driver handle is bound
\* exactly while it is, and none is open between flights, while a failure is
\* recorded, or when the batch ends.
C5_SessionReleased ==
    /\ sessions <= 1
    /\ driver <=> sessions = 1
    /\ pc \in {"main", "loop", "acquire", "except", "done"} => sessions = 0

C5_Witness ==
    /\ pc = "loop" /\ pos >= 1 /\ pos < Len(flights)
    /\ exc.name = "DataMismatchError"
    /\ outcome = "row"
    /\ sessions = 0 /\ ~driver

\* s without any whitespace
RemoveWhitespace(s) == SelectSeq(s, LAMBDA c : ~IsSpace(c))

\* C8 (Validator): a record's flight number and the source-reported one that
\* differ only by letter case and whitespace are treated as equal, so they
\* never make the validation raise a mismatch.
C8_FlightNumbersEqualModuloCaseAndSpace ==
    (/\ Validated /\ HasIdentity(facts)
     /\ Lower(RemoveWhitespace(flight.flightNumber))
            = Lower(RemoveWhitespace(facts.scraped_flight_number))
     /\ AirlineMatch(flight, facts))
        => exc.name # "DataMismatchError"

\* the record has a non-empty aircraft reference, a non-empty registration
\* and a note that contains the marker
Complete(f) ==
    /\ f.aircraft.kind \in {"dict", "str"} /\ Truthy(f.aircraft.icao)
    /\ Truthy(f.aircraftReg)
    /\ f.note # NoneV /\ Contains(f.note, <<"Flightera:">>)

NotFutureDated(f) == ~Truthy(f.date) \/ (DateParses(f.date) /\ ~IsFutureDate(f.date))

\* C9: a flight that is not dated in the future is short-circuited (no
\* session, no save, no error) if it is complete, and is not short-circuited
\* by this check if its aircraft, registration or marker is absent or empty.
C9_SkipIffComplete ==
    (pos >= 1 /\ NotFutureDated(flight)) =>
        /\ Complete(flight) =>
              /\ outcome = "complete"
              /\ pc \in {"loop", "done"}
              /\ sessions = 0 /\ exc = NoException /\ pos \notin saved
        /\ ~Complete(flight) => outcome # "complete"

(***************************************************************************)
(* Claims about the matcher                                                *)
(***************************************************************************)
\* the record's flight number equals the requested one up to case and spaces,
\* its departure instant falls, in the origin's timezone, on the requested
\* date, and its origin IATA or ICAO code is the requested airport
Satisfies(f, q) ==
    /\ Truthy(f.flightNumber)
    /\ Lower(RemoveSpaces(f.flightNumber)) = Lower(RemoveSpaces(q.flight_number))
    /\ f.departure.k = "utc"
    /\ f.from.kind = "dict" /\ Truthy(f.from.tz) /\ KnownTz(f.from.tz)
    /\ (f.departure.d * 24 + f.departure.h + TzOffset(f.from.tz)) \div 24
          = q.departure_date
    /\ \E code \in {f.from.icao, f.from.iata} :
          code # NoneV /\ Lower(code) = Lower(q.departing_airport)

C11_NoExceptionEscapesMain ==
    mode \in {"id", "search"} => pc # "raised" /\ escaped = NoException

====
